---------------------------- MODULE Spec2Model ----------------------------
(***************************************************************************)
(* A model of optimizer/mopso/particle.py: the Particle state machine      *)
(* (velocity / position / fitness updates, personal best) and the eight    *)
(* leader-selection topologies.                                            *)
(*                                                                         *)
(* Numbers.  Coordinates, velocities and coefficients are fixed-point:     *)
(* the integer x stands for the real x / Scale.  Fitness values and        *)
(* crowding distances are integers; Inf stands for numpy's +inf.  The      *)
(* model keeps the values numeric (no NaN) and does not model the numpy    *)
(* dtype of the arrays: every array holds what was assigned to it.         *)
(*                                                                         *)
(* Indices are those of the source: a front of n members is indexed        *)
(* 0 .. n-1, and a member is identified by its index in the front.         *)
(***************************************************************************)
EXTENDS Integers, Sequences, FiniteSets, TLC

\* ------------------------------------------------------------ bounds
Dim == 1          \* number of parameters (len(lower_bound))
Scale == 2        \* fixed-point resolution: one unit is 1/Scale
MaxCoord == 1     \* largest integer upper bound offered to the particle
MaxVel == 1       \* |velocity| is kept <= MaxVel (in whole units)
MaxFit == 1       \* fitness values offered: 0 .. MaxFit
MaxFront == 3     \* largest Pareto front
MaxCD == 2        \* crowding distances offered: 0 .. MaxCD
MaxId == 3        \* particle ids offered: 0 .. MaxId
MaxDraws == 2     \* cap on the rejected draws of random_ring's loop

\* ------------------------------------------------- program constants
NumObj == 2       \* two objectives (zdt1_objective1, zdt1_objective2)
Inf == 1000       \* np.inf, above every fitness offered

Dims == 1 .. Dim
Objs == 1 .. NumObj

Min(a, b) == IF a <= b THEN a ELSE b
Max(a, b) == IF a >= b THEN a ELSE b
Abs(a) == IF a >= 0 THEN a ELSE -a

\* ------------------------------------------------- Python bound values
\* An element of a bounds list: its Python type and its value (fixed-point).
PyInt(k) == [kind |-> "int", val |-> k * Scale]
PyBool(b) == [kind |-> "bool", val |-> IF b THEN Scale ELSE 0]
PyFloat(u) == [kind |-> "float", val |-> u]

\* The topology names get_pareto_leader recognises, in its order.
Topologies ==
    { "random", "higher_crowding_distance", "lower_crowding_distance",
      "higher_weighted_crowding_distance", "lower_weighted_crowding_distance",
      "round_robin", "higher_crowding_distance_random_ring",
      "lower_crowding_distance_random_ring" }

VARIABLES
    \* the Particle's attributes
    topology, id, position, velocity, best_position, fitness, best_fitness,
    \* the last call: its name, its bounds arguments, what it returned or raised
    op, lower_bound, upper_bound, leader, error,
    \* the last leader selection: its arguments and its use of Randomizer.rng
    pareto_len, crowding_distances, indexes, pdf, draws, pc

particle == << topology, id, position, velocity, best_position, fitness, best_fitness >>
selection == << pareto_len, crowding_distances, indexes, pdf, draws, pc >>
vars == << particle, op, lower_bound, upper_bound, leader, error, selection >>

NoLeader == -1
NoError == << >>
Empty == << >>

\* ------------------------------------------------------ update_position
\* Mutant of IsIntKind: the bool test forgotten.
IsIntKindWithoutBool(b) == b.kind = "int"

\* type(lower_bound[i]) == int or type(lower_bound[i]) == bool
IsIntKind(b) == b.kind = "int" \/ b.kind = "bool"

\* np.round on a fixed-point value: to the nearest whole number, a tie to
\* the even one.
Round(x) ==
    LET q == x \div Scale
        r == x % Scale
    IN  IF 2 * r < Scale THEN q * Scale
        ELSE IF 2 * r > Scale THEN (q + 1) * Scale
        ELSE IF q % 2 = 0 THEN q * Scale
        ELSE (q + 1) * Scale

\* The body of the loop: new_position[i].
NewCoordinate(p, v, lb) == IF IsIntKind(lb) THEN Round(p + v) ELSE p + v

\* Mutant of Clip: the upper bound not applied.
ClipBelowOnly(x, lo, hi) == Max(x, lo)

\* np.clip(x, lo, hi) = minimum(maximum(x, lo), hi)
Clip(x, lo, hi) == Min(Max(x, lo), hi)

UpdatedPosition(pos, vel, lb, ub) ==
    [i \in Dims |-> Clip(NewCoordinate(pos[i], vel[i], lb[i]), lb[i].val, ub[i].val)]

\* ---------------------------------------------------------- update_best
\* Mutant of AllLeq: strict comparison.
AllLess(f, b) == \A k \in Objs : f[k] < b[k]

\* np.all(self.fitness <= self.best_fitness)
AllLeq(f, b) == \A k \in Objs : f[k] <= b[k]

\* ------------------------------------------------------ update_velocity
\* The product of two fixed-point numbers, on the grid.
Mul(a, b) == (a * b) \div Scale

NewVelocity(vel, pos, best, lead, w, c1, r1, c2, r2) ==
    [i \in Dims |->
        Mul(w, vel[i]) + Mul(Mul(c1, r1), best[i] - pos[i])
                       + Mul(Mul(c2, r2), lead[i] - pos[i])]

\* ------------------------------------------------------------ topologies
Idx(n) == 0 .. (n - 1)

\* a[::-1]
Reversed(a, n) == [i \in Idx(n) |-> a[n - 1 - i]]

\* np.argsort(a): the index orders that sort a ascending.  The default sort
\* is not stable, so equal values come in either order.
ArgSorts(a, n) ==
    { s \in [Idx(n) -> Idx(n)] :
        /\ \A i, j \in Idx(n) : i # j => s[i] # s[j]
        /\ \A i \in Idx(n) : i + 1 < n => a[s[i]] <= a[s[i + 1]] }

\* crowding_distance_topology: the front indices it can return.
crowding_distance_topology(n, cd, higher) ==
    LET sorted_indexes == ArgSorts(IF higher THEN Reversed(cd, n) ELSE cd, n)
    IN  { s[0] : s \in sorted_indexes }

\* Mutant of round_robin_topology: the id clamped instead of wrapped.
round_robin_clamped(n, pid) == IF pid < n THEN pid ELSE n - 1

\* round_robin_topology
round_robin_topology(n, pid) == pid % n

\* An array of two drawn indices: indexes[0], indexes[1].
Pair(i0, i1) == [k \in Idx(2) |-> IF k = 0 THEN i0 ELSE i1]

\* random_ring_topology after its loop (indexes[0] # indexes[1]):
\* pareto_particles lists the two drawn members by increasing front index,
\* while crowding_distances[indexes] lists their distances in the order drawn.
random_ring_pick(cd, higher, ind) ==
    LET pareto_particles == Pair(Min(ind[0], ind[1]), Max(ind[0], ind[1]))
        drawn == [k \in Idx(2) |-> cd[ind[k]]]
        sorted_indexes == ArgSorts(IF higher THEN Reversed(drawn, 2) ELSE drawn, 2)
    IN  { pareto_particles[s[0]] : s \in sorted_indexes }

\* boltzmann for fewer than three distances: [1], or one of [1,0] / [0,1]
\* chosen by Randomizer.rng.choice.
OneHot(n, k) == [i \in Idx(n) |-> IF i = k THEN 1 ELSE 0]

\* boltzmann for three distances or more, up to normalisation: whether
\* exp(-x) is positive.  With higher, x = 1/(cd + 1e-9), which for cd = 0 is
\* 1e9 and exp(-1e9) underflows to 0; every other exponent offered is small.
\* A vector of zeros is 0/0 after normalisation: not a distribution.
BoltzmannWeight(d, higher) == IF higher /\ d = 0 THEN 0 ELSE 1

\* Mutant of boltzmann: no special case for one or two distances.
boltzmann_without_small_cases(n, cd, higher) ==
    { [i \in Idx(n) |-> BoltzmannWeight(cd[i], higher)] }

boltzmann(n, cd, higher) ==
    IF n = 1 THEN { OneHot(1, 0) }
    ELSE IF n = 2 THEN { OneHot(2, 0), OneHot(2, 1) }
    ELSE { [i \in Idx(n) |-> BoltzmannWeight(cd[i], higher)] }

\* Randomizer.rng.choice(pareto_front, p = pdf): a member of positive
\* probability; none when pdf is no distribution (the call raises).
Choice(n, p) == { k \in Idx(n) : p[k] > 0 }

IsHigher(t) ==
    t \in { "higher_crowding_distance", "higher_weighted_crowding_distance",
            "higher_crowding_distance_random_ring" }
IsCrowding(t) == t \in { "higher_crowding_distance", "lower_crowding_distance" }
IsWeighted(t) ==
    t \in { "higher_weighted_crowding_distance", "lower_weighted_crowding_distance" }
IsRing(t) ==
    t \in { "higher_crowding_distance_random_ring", "lower_crowding_distance_random_ring" }

\* Mutant of NotImplementedMessage: the topology not named.
NotImplementedWithoutName(t) == << "MOPSO: topology not implemented!" >>

\* f"MOPSO: {self.topology} not implemented!"
NotImplementedMessage(t) == << "MOPSO: ", t, " not implemented!" >>
\* probabilities do not sum to a number (raised by rng.choice)
NotADistribution == << "probabilities contain NaN" >>

\* get_pareto_leader: the members it can return, and what it can raise.
Leaders(t, pid, n, cd) ==
    IF t = "random" THEN Idx(n)
    ELSE IF IsCrowding(t) THEN crowding_distance_topology(n, cd, IsHigher(t))
    ELSE IF IsWeighted(t) THEN UNION { Choice(n, p) : p \in boltzmann(n, cd, IsHigher(t)) }
    ELSE IF t = "round_robin" THEN { round_robin_topology(n, pid) }
    ELSE IF IsRing(t) THEN
        IF n < 2 THEN { 0 }
        ELSE UNION { random_ring_pick(cd, IsHigher(t), Pair(q[1], q[2])) :
                        q \in { r \in Idx(n) \X Idx(n) : r[1] # r[2] } }
    ELSE { }

Raised(t, pid, n, cd) ==
    IF t \notin Topologies THEN { NotImplementedMessage(t) }
    ELSE IF IsWeighted(t) /\ \E p \in boltzmann(n, cd, IsHigher(t)) : Choice(n, p) = { }
         THEN { NotADistribution }
    ELSE { }


\* --------------------------------------------------------------- inputs
UnknownTopologies == { "ring" }
Ids == 0 .. MaxId

\* Per dimension, a lower and an upper bound as they stand in the two lists.
\* The last pair is out of order (lower > upper).
BoundPairs ==
    { << PyInt(0), PyInt(MaxCoord) >>,
      << PyFloat(1), PyFloat(MaxCoord * Scale + 1) >>,
      << PyInt(0), PyFloat(MaxCoord * Scale + 1) >>,
      << PyFloat(1), PyInt(MaxCoord) >>,
      << PyBool(FALSE), PyBool(TRUE) >>,
      << PyFloat(MaxCoord * Scale + 1), PyFloat(1) >> }
BoundsInputs == [Dims -> BoundPairs]
Lower(b) == [i \in Dims |-> b[i][1]]
Upper(b) == [i \in Dims |-> b[i][2]]

\* Coordinates handed to set_position: below, inside (fractional), above.
CoordinateInputs == { -Scale, 1, (MaxCoord + 1) * Scale }
PositionInputs == [Dims -> CoordinateInputs]
VelocityInputs == [Dims -> { -MaxVel * Scale, 1 }]
FitnessInputs == [Objs -> 0 .. MaxFit]
LeaderPositions == { [i \in Dims |-> 0], [i \in Dims |-> MaxCoord * Scale + 1] }
\* uniform(0, 1) is in [0, 1)
UniformInputs == 0 .. (Scale - 1)
InertiaInputs == { 0, 1, Scale }
CoefficientInputs == { Scale }

FrontInputs ==
    UNION { { [n |-> n, cd |-> c] : c \in [Idx(n) -> 0 .. MaxCD] } : n \in 1 .. MaxFront }

\* What a particle of topology t and id pid gets from get_pareto_leader over
\* the fronts offered: the member returned, or the error raised.
Outcomes(t, pid) ==
    UNION { { [leader |-> k, error |-> NoError] : k \in Leaders(t, pid, fr.n, fr.cd) }
            \cup { [leader |-> NoLeader, error |-> e] : e \in Raised(t, pid, fr.n, fr.cd) }
            : fr \in FrontInputs }
OutcomeTable == [t \in Topologies \cup UnknownTopologies, pid \in Ids |-> Outcomes(t, pid)]

\* States restored by set_state.
Checkpoints ==
    { [velocity |-> v, position |-> p, best_position |-> b, fitness |-> f, best_fitness |-> g] :
        v \in VelocityInputs,
        p \in { [i \in Dims |-> -Scale], [i \in Dims |-> (MaxCoord + 1) * Scale] },
        b \in { [i \in Dims |-> 1] },
        f \in { [k \in Objs |-> MaxFit] },
        g \in { [k \in Objs |-> 0], [k \in Objs |-> IF k = 1 THEN 0 ELSE Inf] } }

\* The topologies of the particles whose life cycle is followed: one that
\* never raises, one whose selection can raise, one that is not recognised.
LifeCycleTopologies ==
    { "round_robin", "higher_weighted_crowding_distance" } \cup UnknownTopologies

\* ------------------------------------------------------------- Particle
NoSelection ==
    /\ pareto_len = 0
    /\ crowding_distances = Empty
    /\ indexes = Empty
    /\ pdf = Empty
    /\ draws = 0
    /\ pc = "idle"

\* Particle.__init__
Construct(t, pid, lb, ub) ==
    /\ topology = t
    /\ id = pid
    /\ position = [i \in Dims |-> lb[i].val]
    /\ velocity = [i \in Dims |-> 0]
    /\ best_position = position
    /\ best_fitness = [k \in Objs |-> Inf]
    /\ fitness = [k \in Objs |-> 1]
    /\ op = "__init__"
    /\ lower_bound = lb
    /\ upper_bound = ub
    /\ leader = NoLeader
    /\ error = NoError
    /\ NoSelection

Init ==
    \E t \in LifeCycleTopologies, b \in BoundsInputs :
        Construct(t, MaxId, Lower(b), Upper(b))

\* Particle.get_pareto_leader, as its caller sees it
get_pareto_leader ==
    /\ pc = "idle"
    /\ \E out \in OutcomeTable[topology, id] :
        /\ leader' = out.leader
        /\ error' = out.error
    /\ op' = "get_pareto_leader"
    /\ lower_bound' = Empty /\ upper_bound' = Empty
    /\ UNCHANGED << particle, selection >>

\* Particle.update_velocity
update_velocity ==
    /\ pc = "idle"
    /\ \E out \in OutcomeTable[topology, id] :
        IF out.error # NoError
        THEN \* get_pareto_leader raised: nothing after line 48 runs
             /\ error' = out.error
             /\ UNCHANGED velocity
        ELSE \E lead \in LeaderPositions, w \in InertiaInputs,
                c1 \in CoefficientInputs, c2 \in CoefficientInputs,
                r1 \in UniformInputs, r2 \in UniformInputs :
                LET v == NewVelocity(velocity, position, best_position, lead,
                                     w, c1, r1, c2, r2)
                IN  /\ \A i \in Dims : Abs(v[i]) <= MaxVel * Scale
                    /\ velocity' = v
                    /\ error' = NoError
    /\ leader' = NoLeader
    /\ op' = "update_velocity"
    /\ lower_bound' = Empty /\ upper_bound' = Empty
    /\ UNCHANGED << topology, id, position, best_position, fitness, best_fitness, selection >>

\* Particle.update_position
update_position ==
    /\ pc = "idle"
    /\ \E b \in BoundsInputs :
        /\ position' = UpdatedPosition(position, velocity, Lower(b), Upper(b))
        /\ lower_bound' = Lower(b)
        /\ upper_bound' = Upper(b)
    /\ op' = "update_position"
    /\ leader' = NoLeader /\ error' = NoError
    /\ UNCHANGED << topology, id, velocity, best_position, fitness, best_fitness, selection >>

\* Mutant of update_best: the best overwritten by every fitness.
update_best_always(f, pos, best_f, best_p) == << f, pos >>

\* Particle.update_best, on the fitness just stored: the new
\* << best_fitness, best_position >>.
update_best(f, pos, best_f, best_p) ==
    IF AllLeq(f, best_f) THEN << f, pos >> ELSE << best_f, best_p >>

\* Particle.set_fitness
set_fitness ==
    /\ pc = "idle"
    /\ \E f \in FitnessInputs :
        /\ fitness' = f
        /\ best_fitness' = update_best(f, position, best_fitness, best_position)[1]
        /\ best_position' = update_best(f, position, best_fitness, best_position)[2]
    /\ op' = "set_fitness"
    /\ lower_bound' = Empty /\ upper_bound' = Empty
    /\ leader' = NoLeader /\ error' = NoError
    /\ UNCHANGED << topology, id, position, velocity, selection >>

\* Particle.set_position
set_position ==
    /\ pc = "idle"
    /\ \E p \in PositionInputs : position' = p
    /\ op' = "set_position"
    /\ lower_bound' = Empty /\ upper_bound' = Empty
    /\ leader' = NoLeader /\ error' = NoError
    /\ UNCHANGED << topology, id, velocity, best_position, fitness, best_fitness, selection >>

\* Particle.set_state
set_state ==
    /\ pc = "idle"
    /\ \E c \in Checkpoints :
        /\ velocity' = c.velocity
        /\ position' = c.position
        /\ best_position' = c.best_position
        /\ fitness' = c.fitness
        /\ best_fitness' = c.best_fitness
    /\ op' = "set_state"
    /\ lower_bound' = Empty /\ upper_bound' = Empty
    /\ leader' = NoLeader /\ error' = NoError
    /\ UNCHANGED << topology, id, selection >>

Next ==
    \/ get_pareto_leader
    \/ update_velocity
    \/ update_position
    \/ set_fitness
    \/ set_position
    \/ set_state

Spec == Init /\ [][Next]_vars

\* ------------------------------------------- get_pareto_leader, in detail
\* One call get_pareto_leader(pareto_front, crowding_distances) on a newly
\* built particle, branch by branch, with its draws from Randomizer.rng.
InitLeader ==
    \E t \in Topologies \cup UnknownTopologies, pid \in Ids :
        Construct(t, pid, [i \in Dims |-> PyFloat(0)], [i \in Dims |-> PyFloat(Scale)])

\* What every branch does on entry: the arguments are taken.
Enter(fr) ==
    /\ pc = "idle"
    /\ pareto_len' = fr.n
    /\ crowding_distances' = fr.cd
    /\ op' = "get_pareto_leader"
    /\ lower_bound' = Empty /\ upper_bound' = Empty
    /\ UNCHANGED particle

\* topology == "random": Randomizer.rng.choice(pareto_front)
random_topology ==
    /\ topology = "random"
    /\ \E fr \in FrontInputs :
        /\ Enter(fr)
        /\ \E k \in Idx(fr.n) : leader' = k
    /\ draws' = 1
    /\ error' = NoError
    /\ indexes' = Empty /\ pdf' = Empty /\ pc' = "idle"

\* topology == "higher_crowding_distance" / "lower_crowding_distance"
crowding_distance_call ==
    /\ IsCrowding(topology)
    /\ \E fr \in FrontInputs :
        /\ Enter(fr)
        /\ \E k \in crowding_distance_topology(fr.n, fr.cd, IsHigher(topology)) : leader' = k
    /\ draws' = 0
    /\ error' = NoError
    /\ indexes' = Empty /\ pdf' = Empty /\ pc' = "idle"

\* topology == "higher_weighted_crowding_distance" / "lower_weighted_..."
weighted_crowding_distance_topology ==
    /\ IsWeighted(topology)
    /\ \E fr \in FrontInputs :
        /\ Enter(fr)
        /\ \E p \in boltzmann(fr.n, fr.cd, IsHigher(topology)) :
            /\ pdf' = p
            /\ IF Choice(fr.n, p) = { }
               THEN leader' = NoLeader /\ error' = NotADistribution
               ELSE /\ \E k \in Choice(fr.n, p) : leader' = k
                    /\ error' = NoError
        \* boltzmann draws once for two distances; rng.choice draws once
        /\ draws' = (IF fr.n = 2 THEN 1 ELSE 0) + 1
    /\ indexes' = Empty /\ pc' = "idle"

\* topology == "round_robin"
round_robin_call ==
    /\ topology = "round_robin"
    /\ \E fr \in FrontInputs :
        /\ Enter(fr)
        /\ leader' = round_robin_topology(fr.n, id)
    /\ draws' = 0
    /\ error' = NoError
    /\ indexes' = Empty /\ pdf' = Empty /\ pc' = "idle"

\* Mutant of random_ring_enter: no return for a front of fewer than two.
random_ring_enter_without_short_cut ==
    /\ IsRing(topology)
    /\ \E fr \in FrontInputs : Enter(fr)
    /\ leader' = NoLeader /\ pc' = "ring_loop"
    /\ draws' = 0
    /\ error' = NoError
    /\ indexes' = Empty /\ pdf' = Empty

\* topology == "..._random_ring": random_ring_topology up to its loop
random_ring_enter ==
    /\ IsRing(topology)
    /\ \E fr \in FrontInputs :
        /\ Enter(fr)
        /\ IF fr.n < 2
           THEN leader' = 0 /\ pc' = "idle"
           ELSE leader' = NoLeader /\ pc' = "ring_loop"
    /\ draws' = 0
    /\ error' = NoError
    /\ indexes' = Empty /\ pdf' = Empty

\* One turn of the loop: indexes = rng.integers(0, pareto_len, size = 2),
\* and what follows the loop when it breaks.
random_ring_draw ==
    /\ pc = "ring_loop"
    /\ \E i0 \in Idx(pareto_len), i1 \in Idx(pareto_len) :
        /\ indexes' = Pair(i0, i1)
        /\ IF i0 # i1
           THEN /\ \E k \in random_ring_pick(crowding_distances, IsHigher(topology),
                                             Pair(i0, i1)) : leader' = k
                /\ pc' = "idle"
           ELSE /\ draws < MaxDraws
                /\ leader' = NoLeader
                /\ pc' = "ring_loop"
    /\ draws' = draws + 1
    /\ UNCHANGED << particle, op, lower_bound, upper_bound, error,
                    pareto_len, crowding_distances, pdf >>

\* else: raise ValueError
raise_not_implemented ==
    /\ topology \notin Topologies
    /\ \E fr \in FrontInputs : Enter(fr)
    /\ leader' = NoLeader
    /\ error' = NotImplementedMessage(topology)
    /\ draws' = 0
    /\ indexes' = Empty /\ pdf' = Empty /\ pc' = "idle"

NextLeader ==
    \/ random_topology
    \/ crowding_distance_call
    \/ weighted_crowding_distance_topology
    \/ round_robin_call
    \/ random_ring_enter
    \/ random_ring_draw
    \/ raise_not_implemented

SpecLeader == InitLeader /\ [][NextLeader]_vars

\* ================================================================ claims
InfVector == [k \in Objs |-> Inf]
Ordered(lb, ub) == \A i \in Dims : lb[i].val <= ub[i].val
IntTyped(b) == b.kind \in { "int", "bool" }
Whole(x) == x % Scale = 0
\* m is x rounded as np.round rounds: a whole number nearest to x, the even
\* one of the two when x is half way.
RoundedFrom(m, x) ==
    /\ Whole(m)
    /\ 2 * Abs(m - x) <= Scale
    /\ 2 * Abs(m - x) = Scale => (m \div Scale) % 2 = 0
\* y is x brought into [lo, hi]
ClippedFrom(y, x, lo, hi) ==
    IF x < lo THEN y = lo ELSE IF x > hi THEN y = hi ELSE y = x

\* C1: after update_position(lower_bound, upper_bound) with
\* lower_bound[i] <= upper_bound[i] for all i, every coordinate lies in
\* [lower_bound[i], upper_bound[i]], whatever the position and velocity were.
C1_PositionWithinBounds ==
    (op = "update_position" /\ Ordered(lower_bound, upper_bound))
        => \A i \in Dims : /\ lower_bound[i].val <= position[i]
                           /\ position[i] <= upper_bound[i].val

\* C1 witness: the update left the coordinate on the upper bound although the
\* velocity points down: the position it started from was above the bounds.
C1_Witness ==
    /\ op = "update_position"
    /\ Ordered(lower_bound, upper_bound)
    /\ \E i \in Dims : /\ position[i] = upper_bound[i].val
                       /\ velocity[i] < 0
                       /\ lower_bound[i].val < upper_bound[i].val

\* C2: set_fitness(f) stores f, and replaces best_fitness / best_position by
\* (f, position) if and only if f[k] <= best_fitness[k] for every objective k,
\* against the best_fitness held before the call; otherwise both are kept.
C2_SetFitnessWeakDominance ==
    [][ op' = "set_fitness" =>
          /\ position' = position
          /\ IF \A k \in Objs : fitness'[k] <= best_fitness[k]
             THEN best_fitness' = fitness' /\ best_position' = position
             ELSE best_fitness' = best_fitness /\ best_position' = best_position
      ]_vars

\* C2 witness: a fitness equal to the best held, set at another position,
\* has replaced the best position.
C2_Witness ==
    /\ op = "set_fitness"
    /\ best_fitness = fitness
    /\ best_position = position
    /\ fitness = [k \in Objs |-> MaxFit]
    /\ \E i \in Dims : position[i] = -Scale

\* C3 (as stated): on a front of any size with pairwise distinct crowding
\* distances, higher_crowding_distance returns the member of greatest
\* distance and lower_crowding_distance the member of least distance.
C3_CrowdingExtreme ==
    ( /\ IsCrowding(topology)
      /\ op = "get_pareto_leader"
      /\ \A i, j \in Idx(pareto_len) :
            i # j => crowding_distances[i] # crowding_distances[j] )
        => /\ leader \in Idx(pareto_len)
           /\ \A j \in Idx(pareto_len) :
                IF IsHigher(topology)
                THEN crowding_distances[j] <= crowding_distances[leader]
                ELSE crowding_distances[leader] <= crowding_distances[j]

\* C4 (as stated): random_ring on a front of two or more draws two distinct
\* indices and returns, whatever the order drawn, the one of the two members
\* with the higher (higher) or lower (lower) crowding distance.
C4_RingPicksExtremeOfPair ==
    ( /\ IsRing(topology)
      /\ op = "get_pareto_leader"
      /\ pareto_len >= 2
      /\ pc = "idle" )
        => /\ indexes[0] # indexes[1]
           /\ leader \in { indexes[0], indexes[1] }
           /\ \A k \in Idx(2) :
                IF IsHigher(topology)
                THEN crowding_distances[indexes[k]] <= crowding_distances[leader]
                ELSE crowding_distances[leader] <= crowding_distances[indexes[k]]

C6_UnknownTopologyRaises ==
    /\ (op = "__init__" => error = NoError)
    /\ [][ (topology \notin Topologies /\ op' \in { "get_pareto_leader", "update_velocity" }) =>
             /\ error' # NoError
             /\ \E k \in DOMAIN error' : error'[k] = topology
             /\ leader' = NoLeader
             /\ UNCHANGED << velocity, position, fitness, best_position, best_fitness >>
         ]_vars

\* C6 witness: update_velocity has raised on such a particle after its
\* fitness and position had been set.
C6_Witness ==
    /\ topology \notin Topologies
    /\ op = "update_velocity"
    /\ error # NoError
    /\ best_fitness # InfVector
    /\ position # best_position

\* C7: on a front of one or two members, with any distances (equal ones
\* too), each recognised topology raises nothing and returns a member of the
\* front; the sole member of a front of one, and random_ring then without a
\* draw; on two members random_ring's loop goes on only after a draw of two
\* equal indices and ends on a draw of two different ones.
C7_SmallFronts ==
    (topology \in Topologies /\ op = "get_pareto_leader" /\ pareto_len \in { 1, 2 })
        => /\ error = NoError
           /\ pc = "idle" => leader \in Idx(pareto_len)
           /\ pareto_len = 1 =>
                /\ pc = "idle" /\ leader = 0
                /\ IsRing(topology) => draws = 0 /\ indexes = Empty
           /\ (IsRing(topology) /\ pareto_len = 2) =>
                /\ pc = "ring_loop" => (draws = 0 \/ indexes[0] = indexes[1])
                /\ pc = "idle" => (draws > 0 /\ indexes[0] # indexes[1])

\* C7 witness: random_ring returned a member of a front of two with equal
\* distances after a rejected draw.
C7_Witness ==
    /\ IsRing(topology)
    /\ op = "get_pareto_leader"
    /\ pareto_len = 2
    /\ crowding_distances[0] = crowding_distances[1]
    /\ pc = "idle"
    /\ draws >= 2
    /\ leader \in Idx(2)

\* C8: boltzmann returns [1] for one distance and [1,0] or [0,1] for two,
\* whatever the distances and for either value of higher; the weighted
\* topology on a front of two returns the member marked 1.
C8_BoltzmannSmallFronts ==
    (IsWeighted(topology) /\ op = "get_pareto_leader")
        => /\ pareto_len = 1 => (DOMAIN pdf = { 0 } /\ pdf[0] = 1 /\ leader = 0)
           /\ pareto_len = 2 =>
                /\ DOMAIN pdf = { 0, 1 }
                /\ << pdf[0], pdf[1] >> \in { << 1, 0 >>, << 0, 1 >> }
                /\ error = NoError
                /\ leader \in { 0, 1 } /\ pdf[leader] = 1

\* C8 witness: with higher and d0 > d1 the vector drawn was [0,1] and the
\* member returned is the one of smaller distance: the distances play no part.
C8_Witness ==
    /\ topology = "higher_weighted_crowding_distance"
    /\ op = "get_pareto_leader"
    /\ pareto_len = 2
    /\ crowding_distances[0] > crowding_distances[1]
    /\ << pdf[0], pdf[1] >> = << 0, 1 >>
    /\ leader = 1

\* C9: round_robin returns pareto_front[id mod len(pareto_front)]: the result
\* is fixed by the particle id and the front length, and no random draw is made.
C9_RoundRobin ==
    (topology = "round_robin" /\ op = "get_pareto_leader")
        => /\ error = NoError
           /\ draws = 0
           /\ leader \in Idx(pareto_len)
           /\ \E q \in 0 .. id : id = q * pareto_len + leader

\* C9 witness: an id beyond the front wraps around.
C9_Witness ==
    /\ topology = "round_robin"
    /\ op = "get_pareto_leader"
    /\ id > pareto_len
    /\ pareto_len = 2
    /\ leader = 1
    /\ crowding_distances[0] > crowding_distances[1]

\* C10: apart from set_state, best_fitness and best_position change only in
\* set_fitness and only to a fitness componentwise <= the best held before;
\* best_fitness never increases in any objective; the first set_fitness (best
\* still +inf) installs its argument; update_velocity, update_position,
\* set_position and get_pareto_leader leave best_fitness, best_position and
\* fitness as they were.
C10_BestOnlyImproves ==
    [][ op' # "set_state" =>
          /\ \A k \in Objs : best_fitness'[k] <= best_fitness[k]
          /\ op' # "set_fitness" =>
                UNCHANGED << best_fitness, best_position, fitness >>
          /\ (best_fitness' # best_fitness \/ best_position' # best_position) =>
                /\ op' = "set_fitness"
                /\ best_fitness' = fitness'
                /\ best_position' = position
          /\ (op' = "set_fitness" /\ best_fitness = InfVector) =>
                best_fitness' = fitness'
      ]_vars

\* C10 witness: the best found earlier is still held after the particle has
\* moved and a worse fitness has been set.
C10_Witness ==
    /\ op = "update_position"
    /\ best_position = [i \in Dims |-> (MaxCoord + 1) * Scale]
    /\ best_position # position
    /\ best_fitness # InfVector
    /\ fitness # best_fitness
    /\ \E i \in Dims : velocity[i] # 0

=============================================================================
